---- MODULE Spec2Model ----
(***************************************************************************)
(* Discrete Morse-Smale complex of a scalar field on a toroidal grid       *)
(* (morse/torusmesh.py, class TorusMesh): discrete gradient by lower       *)
(* stars, Morse-Smale graph, arcs, persistence pairs and the cancellation  *)
(* of pairs by gradient reversal or by arc splicing.                       *)
(***************************************************************************)
EXTENDS Integers, Sequences, FiniteSets, Bags, TLC

VARIABLES
    sizeX,      \* TorusMesh.sizeX
    sizeY,      \* TorusMesh.sizeY
    values,     \* TorusMesh.values, a function on <<x, y>>
    V,          \* TorusMesh.V, the discrete gradient
    cr_id,      \* TorusMesh.cr_id, the critical bitmap
    cr_cells,   \* TorusMesh.cr_cells, the list of critical cells
    msgraph,    \* TorusMesh.msgraph: [nodes, edges], edges a bag of {u, v}
    arcs,       \* TorusMesh.arcs: saddle -> sequence of arcs
    ppairs,     \* TorusMesh.ppairs: sequence of <<saddle, extremum, persistence>>
    pc,         \* how far the caller has come: "new", "gradient", "msgraph",
                \* "arcs", "built", "simplified", "threads"
    err,        \* "" or the exception (or "hang") that ended the run
    last,       \* the last call, <<>> before the first: a cancellation
                \* [method, pair], a simplify_* call or a call of an
                \* indexing function [op, arg, result]
    threads_num,\* argument of cmp_discrete_gradient
    workers,    \* the worker threads of cmp_discrete_gradient
    touched     \* per cell: the vertices whose processing accessed V or cr_id there

vars == <<sizeX, sizeY, values, V, cr_id, cr_cells, msgraph, arcs, ppairs, pc,
          err, last, threads_num, workers, touched>>

(***************************************************************************)
(* Bounds of the model.                                                    *)
(***************************************************************************)
MaxSide == 4       \* grids are W x H with 3 <= W, H <= MaxSide
MaxA == 4          \* field generator: multipliers 1 .. MaxA
MaxB == 2          \* field generator: offsets 0 .. MaxB
MaxThreads == 2    \* threads_num ranges over 1 .. MaxThreads
MaxThreadSide == 3 \* with threads, grids are W x H with 3 <= W, H <= MaxThreadSide
MaxRemained == 3   \* simplify_by_pairs_remained is called with 0 .. MaxRemained
MaxLevel == 10     \* simplify_by_level is called with 0 .. MaxLevel
MaxTieValue == 1   \* the fields with ties take their values in 0 .. MaxTieValue
MaxCellSide == 4   \* the indexing functions are called on grids of 1 .. MaxCellSide
MaxArcLen == 6     \* _simplify_arc is called on lists of 0 .. MaxArcLen cells
MaxArcCell == 2    \* the cells of these lists are 0 .. MaxArcCell

None == -1

(***************************************************************************)
(* Generic helpers (Python built-ins).                                     *)
(***************************************************************************)
Range(s) == {s[i] : i \in DOMAIN s}

Max2(a, b) == IF a >= b THEN a ELSE b

Abs(x) == IF x >= 0 THEN x ELSE -x

\* Python's comparison of two tuples of numbers
LexLess(a, b) ==
    \E k \in 1 .. (Len(a) + 1) :
        /\ \A j \in 1 .. (k - 1) : j <= Len(b) /\ a[j] = b[j]
        /\ \/ k = Len(a) + 1 /\ Len(b) >= k
           \/ k <= Len(a) /\ k <= Len(b) /\ a[k] < b[k]

RECURSIVE SortDesc(_)
\* sorted(..., reverse=True) of a tuple of numbers
SortDesc(s) ==
    IF s = <<>> THEN <<>>
    ELSE LET m == CHOOSE i \in DOMAIN s : \A j \in DOMAIN s : s[i] >= s[j]
             rest == [k \in 1 .. (Len(s) - 1) |-> IF k < m THEN s[k] ELSE s[k + 1]]
         IN  <<s[m]>> \o SortDesc(rest)

RemoveAt(s, i) == [k \in 1 .. (Len(s) - 1) |-> IF k < i THEN s[k] ELSE s[k + 1]]

\* list.remove(x): the first occurrence
RemoveFirst(s, x) ==
    LET i == CHOOSE k \in DOMAIN s : s[k] = x /\ \A j \in 1 .. (k - 1) : s[j] # x
    IN  RemoveAt(s, i)

(***************************************************************************)
(* Cell indexing.                                                          *)
(***************************************************************************)
size == sizeX * sizeY

Cells == 0 .. (4 * size - 1)

dim(idx) == IF idx < size THEN 0 ELSE IF idx < 3 * size THEN 1 ELSE 2

_to_index(x, y) == x * sizeY + y

_vleft(idx) == idx - (idx % sizeX) + ((idx + sizeX - 1) % sizeX)

_vright(idx) == idx - (idx % sizeX) + ((idx + 1) % sizeX)

_vtop(idx) == (idx + size - sizeX) % size

\* faulty variant of _vbottom: the row length taken from the other side
_vbottom_sizeY(idx) == (idx + sizeY) % size

_vbottom(idx) == (idx + sizeX) % size

_eleft(idx) == size + _vleft(idx)

_eright(idx) == size + idx

_etop(idx) == size * 2 + _vtop(idx)

_ebottom(idx) == size * 2 + idx

_flefttop(idx) == size * 3 + _vtop(_vleft(idx))

_fleftbottom(idx) == size * 3 + _vleft(idx)

_frighttop(idx) == size * 3 + _vtop(idx)

_frightbottom(idx) == size * 3 + idx

_verts(idx) ==
    IF idx < size THEN <<idx>>
    ELSE IF idx < 2 * size THEN <<idx - size, _vright(idx - size)>>
    ELSE IF idx < 3 * size THEN <<idx - 2 * size, _vbottom(idx - 2 * size)>>
    ELSE <<idx - 3 * size, _vright(idx - 3 * size),
           _vbottom(_vright(idx - 3 * size)), _vbottom(idx - 3 * size)>>

_facets(idx) ==
    IF dim(idx) = 2
    THEN LET tmp_idx == idx - 3 * size
         IN  <<size + tmp_idx, 2 * size + tmp_idx,
               size + _vbottom(tmp_idx), 2 * size + _vright(tmp_idx)>>
    ELSE _verts(idx)

\* faulty variant of _cofacets: the face below a horizontal edge taken for the
\* one above it
_cofacets_below(idx) ==
    IF idx < 2 * size
    THEN LET tmp_idx == idx - size
         IN  <<3 * size + _vbottom(tmp_idx), 3 * size + tmp_idx>>
    ELSE LET tmp_idx == idx - 2 * size
         IN  <<3 * size + _vleft(tmp_idx), 3 * size + tmp_idx>>

\* called with 1-cells only (anything else raises AssertionError, see CofacetsOk)
_cofacets(idx) ==
    IF idx < 2 * size
    THEN LET tmp_idx == idx - size
         IN  <<3 * size + _vtop(tmp_idx), 3 * size + tmp_idx>>
    ELSE LET tmp_idx == idx - 2 * size
         IN  <<3 * size + _vleft(tmp_idx), 3 * size + tmp_idx>>

CofacetsOk(idx) == idx \in Cells /\ dim(idx) = 1

coordx(idx) == idx % sizeX

coordy(idx) == idx \div sizeX

\* faulty variant of value: the vertex idx taken as _to_index(x, y)
value_by_to_index(idx) == values[<<idx \div sizeY, idx % sizeY>>]

value(idx) == values[<<coordx(idx), coordy(idx)>>]

\* faulty variant of _extvalue: the largest vertex value alone
_extvalue_largest(idx) ==
    LET v == _verts(idx)
    IN  <<SortDesc([i \in 1 .. Len(v) |-> value(v[i])])[1]>>

_extvalue(idx) ==
    LET v == _verts(idx)
    IN  SortDesc([i \in 1 .. Len(v) |-> value(v[i])])

star(idx) ==
    <<_eright(idx), _etop(idx), _eleft(idx), _ebottom(idx),
      _frighttop(idx), _flefttop(idx), _fleftbottom(idx), _frightbottom(idx)>>

\* the heap entries are tuples (extvalue, idx): their order
KeyLess(c, d) ==
    \/ LexLess(_extvalue(c), _extvalue(d))
    \/ _extvalue(c) = _extvalue(d) /\ c < d

\* faulty variant of SortByExt: the list is left in the order it has
SortByExtSkipped(s) == s

RECURSIVE SortByExt(_)
\* list.sort(key=_extvalue): stable, ascending
SortByExt(s) ==
    IF s = <<>> THEN <<>>
    ELSE LET m == CHOOSE i \in DOMAIN s :
                      /\ \A j \in DOMAIN s : ~LexLess(_extvalue(s[j]), _extvalue(s[i]))
                      /\ \A j \in 1 .. (i - 1) : _extvalue(s[j]) # _extvalue(s[i])
         IN  <<s[m]>> \o SortByExt(RemoveAt(s, m))

\* faulty variant of lower_star: the whole star, whatever the values
lower_star_whole(idx) == SortByExt(star(idx))

lower_star(idx) ==
    LET v == value(idx)
        is_left_lower == value(_vleft(idx)) < v
        is_top_lower == value(_vtop(idx)) < v
        is_right_lower == value(_vright(idx)) < v
        is_bottom_lower == value(_vbottom(idx)) < v
        is_left_bottom_lower == value(_vleft(_vbottom(idx))) < v
        is_right_bottom_lower == value(_vright(_vbottom(idx))) < v
        is_left_top_lower == value(_vleft(_vtop(idx))) < v
        is_right_top_lower == value(_vright(_vtop(idx))) < v
        st ==  (IF is_left_lower THEN <<_eleft(idx)>> ELSE <<>>)
            \o (IF is_top_lower THEN <<_etop(idx)>> ELSE <<>>)
            \o (IF is_right_lower THEN <<_eright(idx)>> ELSE <<>>)
            \o (IF is_bottom_lower THEN <<_ebottom(idx)>> ELSE <<>>)
            \o (IF is_left_lower /\ is_top_lower /\ is_left_top_lower
                THEN <<_flefttop(idx)>> ELSE <<>>)
            \o (IF is_right_lower /\ is_top_lower /\ is_right_top_lower
                THEN <<_frighttop(idx)>> ELSE <<>>)
            \o (IF is_left_lower /\ is_bottom_lower /\ is_left_bottom_lower
                THEN <<_fleftbottom(idx)>> ELSE <<>>)
            \o (IF is_right_lower /\ is_bottom_lower /\ is_right_bottom_lower
                THEN <<_frightbottom(idx)>> ELSE <<>>)
    IN  SortByExt(st)

(***************************************************************************)
(* The gradient and the critical cells.  A "memory" m is the record        *)
(* [V, cr_id, cr_cells] of the three arrays the lower-star processing      *)
(* shares.                                                                 *)
(***************************************************************************)
is_critical(m, idx) == m.cr_id[idx]

\* faulty variant of set_critical: the cell is listed but its bit is not set
set_critical_list_only(m, idx) ==
    [m EXCEPT !.cr_cells = Append(@, idx)]

\* faulty variant of set_critical: the bit is set, the append is lost
set_critical_bit_only(m, idx) ==
    [m EXCEPT !.cr_id = [@ EXCEPT ![idx] = TRUE]]

set_critical(m, idx) ==
    [m EXCEPT !.cr_id = [@ EXCEPT ![idx] = TRUE], !.cr_cells = Append(@, idx)]

\* cr_cells.remove(idx) raises ValueError when idx is not in the list
UnsetCriticalOk(m, idx) == idx \in Range(m.cr_cells)

\* faulty variant of unset_critical: the cell leaves the list, its bit stays
unset_critical_list_only(m, idx) ==
    [m EXCEPT !.cr_cells = RemoveFirst(@, idx)]

unset_critical(m, idx) ==
    [m EXCEPT !.cr_id = [@ EXCEPT ![idx] = FALSE],
              !.cr_cells = RemoveFirst(@, idx)]

is_unpaired(m, idx) == (m.V[idx] = None) /\ ~is_critical(m, idx)

unpaired_facets(m, idx, s) ==
    LET facets == _facets(idx)
        Keep(f) == f \in Range(s) /\ is_unpaired(m, f)
    IN  SelectSeq(facets, Keep)

\* the entries of V and cr_id that unpaired_facets(idx, s) reads
UnpairedFacetsReads(idx, s) == Range(_facets(idx)) \cap Range(s)

\* faulty variant of set_gradient_arrow: the arrow back is not stored
set_gradient_arrow_oneway(m, start, end) ==
    [m EXCEPT !.V = [@ EXCEPT ![start] = end]]

set_gradient_arrow(m, start, end) ==
    [m EXCEPT !.V = [[@ EXCEPT ![start] = end] EXCEPT ![end] = start]]

\* heapq on tuples (extvalue, idx): the heap is kept as the sorted sequence of
\* its cells, heappop takes the head
HeapPush(h, c) ==
    LET k == Cardinality({i \in DOMAIN h : ~KeyLess(c, h[i])})
    IN  SubSeq(h, 1, k) \o <<c>> \o SubSeq(h, k + 1, Len(h))

RECURSIVE HeapPushAll(_, _)
HeapPushAll(h, s) ==
    IF s = <<>> THEN h ELSE HeapPushAll(HeapPush(h, Head(s)), Tail(s))

\* the test "alpha in self._facets(beta)" of line 466 compares the heap entry
\* (a tuple) with cell indices: it never holds
AlphaInFacets(alpha, beta) == FALSE

\* _process_star, lines 434-451: up to the first test of the while loop
StarBegin(m, idx) ==
    LET lstar == lower_star(idx)
    IN  IF lstar = <<>>
        THEN [m |-> set_critical(m, idx), lstar |-> lstar,
              pq_zero |-> <<>>, pq_one |-> <<>>, acc |-> {idx}]
        ELSE LET delta == lstar[1]
                 m1 == set_gradient_arrow(m, idx, delta)
                 IsEdge(c) == dim(c) = 1
                 pq0 == HeapPushAll(<<>>, SelectSeq(Tail(lstar), IsEdge))
                 cf == _cofacets(delta)
                 Ready(f) == f \in Range(lstar)
                             /\ Len(unpaired_facets(m1, f, lstar)) = 1
                 pq1 == HeapPushAll(<<>>, SelectSeq(cf, Ready))
             IN  [m |-> m1, lstar |-> lstar, pq_zero |-> pq0, pq_one |-> pq1,
                  acc |-> {idx, delta} \cup
                          UNION {UnpairedFacetsReads(f, lstar) :
                                 f \in Range(cf) \cap Range(lstar)}]

\* _process_star, lines 452-473: one pop of pq_one if it is not empty, else one
\* pop of pq_zero (the inner while drains pq_one before pq_zero is looked at)
StarStep(m, lstar, pq_zero, pq_one) ==
    LET reads == UNION {UnpairedFacetsReads(b, lstar) : b \in Range(lstar)}
    IN
    IF pq_one # <<>>
    THEN LET alpha == Head(pq_one)
             unpair_facets == unpaired_facets(m, alpha, lstar)
         IN  IF unpair_facets = <<>>
             THEN [m |-> m, lstar |-> lstar,
                   pq_zero |-> HeapPush(pq_zero, alpha), pq_one |-> Tail(pq_one),
                   acc |-> UnpairedFacetsReads(alpha, lstar)]
             ELSE LET pair == unpair_facets[1]
                      m1 == set_gradient_arrow(m, pair, alpha)
                      NotPair(x) == x # pair
                      Ready(beta) ==
                          /\ Len(unpaired_facets(m1, beta, lstar)) = 1
                          /\ \/ AlphaInFacets(alpha, beta)
                             \/ pair \in Range(_facets(beta))
                  IN  [m |-> m1, lstar |-> lstar,
                       pq_zero |-> SelectSeq(pq_zero, NotPair),
                       pq_one |-> HeapPushAll(Tail(pq_one), SelectSeq(lstar, Ready)),
                       acc |-> {pair, alpha} \cup reads]
    ELSE LET gamma == Head(pq_zero)
             m1 == set_critical(m, gamma)
             Ready(a) == /\ gamma \in Range(_facets(a))
                         /\ Len(unpaired_facets(m1, a, lstar)) = 1
         IN  [m |-> m1, lstar |-> lstar,
              pq_zero |-> Tail(pq_zero),
              pq_one |-> HeapPushAll(pq_one, SelectSeq(lstar, Ready)),
              acc |-> {gamma} \cup
                      UNION {UnpairedFacetsReads(a, lstar) :
                             a \in {b \in Range(lstar) : gamma \in Range(_facets(b))}}]

RECURSIVE StarLoop(_)
\* the while loop of lines 452-473, run until both heaps are empty
StarLoop(st) ==
    IF st.pq_one = <<>> /\ st.pq_zero = <<>> THEN st.m
    ELSE StarLoop(StarStep(st.m, st.lstar, st.pq_zero, st.pq_one))

_process_star(m, idx) == StarLoop(StarBegin(m, idx))

RECURSIVE _process_stars_parallel(_, _, _)
\* one worker's loop over its block [from, to).  The test on cr_cells is never
\* true: it makes TLC evaluate m before the next call, not after the last one
_process_stars_parallel(m, from, to) ==
    IF from >= to \/ Len(m.cr_cells) < 0 THEN m
    ELSE _process_stars_parallel(_process_star(m, from), from + 1, to)

EmptyMemory ==
    [V |-> [c \in Cells |-> None], cr_id |-> [c \in Cells |-> FALSE],
     cr_cells |-> <<>>]

\* cmp_discrete_gradient with the vertices processed one after the other, in
\* index order (what one worker does; the workers' interleavings are the
\* actions of SpecThreads)
SequentialGradient ==
    LET m == _process_stars_parallel(EmptyMemory, 0, size)
    IN  [m EXCEPT !.cr_cells = SortByExt(@)]

cp(cells, morse_index) ==
    LET Is(p) == dim(p) = morse_index IN SelectSeq(cells, Is)

(***************************************************************************)
(* The Morse-Smale graph: networkx.MultiGraph as [nodes, edges, adj],      *)
(* edges a bag of two-element sets {u, v}, adj[n] the neighbours of n in   *)
(* the order in which they became neighbours (the order of the dict the    *)
(* library keeps per node).                                                *)
(***************************************************************************)
EmptyGraph == [nodes |-> {}, edges |-> EmptyBag, adj |-> <<>>]

\* msgraph.add_nodes_from(cr_cells) on a new graph
add_nodes_from(cells) ==
    [nodes |-> Range(cells), edges |-> EmptyBag,
     adj |-> [n \in Range(cells) |-> <<>>]]

\* the adjacency after add_edge(u, v): new nodes and new neighbours go last
AdjWith(g, u, v) ==
    LET Adj(n) == IF n \in g.nodes THEN g.adj[n] ELSE <<>>
        With(n, x) == IF x \in Range(Adj(n)) THEN Adj(n) ELSE Append(Adj(n), x)
    IN  [n \in g.nodes \cup {u, v} |->
            IF n = u THEN With(u, v) ELSE IF n = v THEN With(v, u) ELSE Adj(n)]

\* faulty variant of add_edge: a simple graph, parallel edges collapse
add_edge_simple(g, u, v) ==
    [nodes |-> g.nodes \cup {u, v},
     edges |-> [e \in BagToSet(g.edges) \cup {{u, v}} |-> 1],
     adj |-> AdjWith(g, u, v)]

add_edge(g, u, v) ==
    [nodes |-> g.nodes \cup {u, v}, edges |-> g.edges (+) SetToBag({{u, v}}),
     adj |-> AdjWith(g, u, v)]

\* remove_edge raises NetworkXError when there is no such edge
RemoveEdgeOk(g, u, v) == BagIn({u, v}, g.edges)

\* one of the parallel edges goes; with the last one, the neighbour
remove_edge(g, u, v) ==
    LET NotU(x) == x # u
        NotV(x) == x # v
    IN  [nodes |-> g.nodes, edges |-> g.edges (-) SetToBag({{u, v}}),
         adj |-> IF CopiesIn({u, v}, g.edges) > 1 THEN g.adj
                 ELSE [n \in g.nodes |->
                          IF n = u THEN SelectSeq(g.adj[n], NotV)
                          ELSE IF n = v THEN SelectSeq(g.adj[n], NotU)
                          ELSE g.adj[n]]]

\* remove_node raises NetworkXError when the node is not in the graph
RemoveNodeOk(g, n) == n \in g.nodes

remove_node(g, n) ==
    LET keep == {e \in BagToSet(g.edges) : n \notin e}
        NotN(x) == x # n
    IN  [nodes |-> g.nodes \ {n}, edges |-> [e \in keep |-> g.edges[e]],
         adj |-> [k \in g.nodes \ {n} |-> SelectSeq(g.adj[k], NotN)]]

RECURSIVE SetToSeq(_)
\* the elements of a set of numbers in ascending order
SetToSeq(S) ==
    IF S = {} THEN <<>>
    ELSE LET x == CHOOSE y \in S : \A z \in S : y <= z
         IN  <<x>> \o SetToSeq(S \ {x})

RECURSIVE Repeat(_, _)
Repeat(x, n) == IF n <= 0 THEN <<>> ELSE <<x>> \o Repeat(x, n - 1)

RECURSIVE Flatten(_)
Flatten(ss) == IF ss = <<>> THEN <<>> ELSE Head(ss) \o Flatten(Tail(ss))

\* [edge[1] for edge in msgraph.edges(nbunch=n)]: the neighbours of n in the
\* order of adj[n], one entry per parallel edge
Neighbours(g, n) ==
    LET nb == IF n \in g.nodes THEN g.adj[n] ELSE <<>>
    IN  Flatten([i \in 1 .. Len(nb) |-> Repeat(nb[i], CopiesIn({n, nb[i]}, g.edges))])

NeighboursOfDim(g, cidx, d) ==
    LET Is(u) == dim(u) = d IN SelectSeq(Neighbours(g, cidx), Is)

\* get_min_neib_msgraph / get_max_neib_msgraph raise ValueError unless there are
\* exactly two such neighbours (AssertionError when cidx is no 1-cell)
get_min_neib_msgraph(g, cidx) == NeighboursOfDim(g, cidx, 0)

get_max_neib_msgraph(g, cidx) == NeighboursOfDim(g, cidx, 2)

NeibOk(nb) == Len(nb) = 2

RECURSIVE MsTrace(_, _, _)
\* the while loop of cmp_msgraph (lines 553-562): q is the deque, oldest entry
\* first; the result lists the critical cells reached, one per path.  The test
\* on found is never true: it makes TLC evaluate found before the next call
MsTrace(m, q, found) ==
    IF q = <<>> \/ Len(found) < 0 THEN found
    ELSE LET a == Head(q)
             b == m.V[a]
             fs == _facets(b)
             Other(face) == face # a
             others == SelectSeq(fs, Other)
             Crit(face) == is_critical(m, face)
             Out(face) == ~is_critical(m, face) /\ m.V[face] > face
         IN  MsTrace(m, Tail(q) \o SelectSeq(others, Out),
                     found \o SelectSeq(others, Crit))

\* the critical cells cmp_msgraph connects cidx to, lines 547-562
MsReached(m, cidx) ==
    LET g == _facets(cidx)
        Crit(face) == is_critical(m, face)
        Out(face) == ~is_critical(m, face) /\ m.V[face] > face
    IN  MsTrace(m, SelectSeq(g, Out), SelectSeq(g, Crit))

\* "self.V[face] > face" raises TypeError for a cell that is neither critical
\* nor paired
MsgraphOk(m) == \A c \in Cells : is_critical(m, c) \/ m.V[c] # None

RECURSIVE AddEdges(_, _, _)
\* the graph always has nodes here: the test on g.nodes is never true and makes
\* TLC evaluate g before the next call
AddEdges(g, cidx, found) ==
    IF found = <<>> \/ g.nodes = {} THEN g
    ELSE AddEdges(add_edge(g, cidx, Head(found)), cidx, Tail(found))

RECURSIVE MsFrom(_, _, _)
MsFrom(m, g, cs) ==
    IF cs = <<>> \/ g.nodes = {} THEN g
    ELSE MsFrom(m, AddEdges(g, Head(cs), MsReached(m, Head(cs))), Tail(cs))

cmp_msgraph(m) ==
    MsFrom(m, add_nodes_from(m.cr_cells),
           cp(m.cr_cells, 1) \o cp(m.cr_cells, 2))

(***************************************************************************)
(* Arcs.  A walk yields [arc, st]: st is "ok", or "hang" when the walk     *)
(* comes back to a cell it has left (the while loop then never ends), or   *)
(* the exception it raises.                                                *)
(***************************************************************************)
RECURSIVE WalkMin(_, _, _, _)
\* lines 581-588
WalkMin(m, cur_v, separx, seen) ==
    IF is_critical(m, cur_v) THEN [arc |-> separx, st |-> "ok"]
    ELSE IF cur_v \in seen THEN [arc |-> separx, st |-> "hang"]
    ELSE LET cur_e == m.V[cur_v]
         IN  IF cur_e = None THEN [arc |-> separx, st |-> "TypeError"]
             ELSE LET v == _verts(cur_e)
                  IN  IF v[1] = cur_v /\ Len(v) < 2
                      THEN [arc |-> separx, st |-> "IndexError"]
                      ELSE LET nxt == IF v[1] = cur_v THEN v[2] ELSE v[1]
                           IN  WalkMin(m, nxt, separx \o <<cur_e, nxt>>,
                                       seen \cup {cur_v})

RECURSIVE WalkMax(_, _, _, _)
\* lines 598-605
WalkMax(m, cur_f, separx, seen) ==
    IF is_critical(m, cur_f) THEN [arc |-> separx, st |-> "ok"]
    ELSE IF cur_f \in seen THEN [arc |-> separx, st |-> "hang"]
    ELSE LET cur_e == m.V[cur_f]
         IN  IF cur_e = None THEN [arc |-> separx, st |-> "TypeError"]
             ELSE IF ~CofacetsOk(cur_e)
             THEN [arc |-> separx, st |-> "AssertionError"]
             ELSE LET f == _cofacets(cur_e)
                      nxt == IF f[1] = cur_f THEN f[2] ELSE f[1]
                  IN  WalkMax(m, nxt, separx \o <<cur_e, nxt>>,
                              seen \cup {cur_f})

\* _cmp_arcs(s): the four walks, as [arcs, st], st the first walk's that is not "ok"
_cmp_arcs(m, s) ==
    LET vertices == _verts(s)
        faces == _cofacets(s)
        w == <<WalkMin(m, vertices[1], <<s, vertices[1]>>, {}),
               WalkMin(m, vertices[2], <<s, vertices[2]>>, {}),
               WalkMax(m, faces[1], <<s, faces[1]>>, {}),
               WalkMax(m, faces[2], <<s, faces[2]>>, {})>>
        bad == {i \in 1 .. 4 : w[i].st # "ok"}
    IN  [arcs |-> [i \in 1 .. 4 |-> w[i].arc],
         st |-> IF bad = {} THEN "ok"
                ELSE w[CHOOSE i \in bad : \A j \in bad : i <= j].st]

cmp_arcs(m) ==
    [s \in Range(cp(m.cr_cells, 1)) |-> _cmp_arcs(m, s).arcs]

CmpArcsStatus(m) ==
    LET bad == {s \in Range(cp(m.cr_cells, 1)) : _cmp_arcs(m, s).st # "ok"}
    IN  IF bad = {} THEN "ok"
        ELSE _cmp_arcs(m, CHOOSE s \in bad : \A t \in bad : s <= t).st

(***************************************************************************)
(* Persistence pairs.  Positions in cr_cells are 1-based here (Python's    *)
(* index i is position i + 1).                                             *)
(***************************************************************************)
idx_reverse(cells, c) == CHOOSE i \in DOMAIN cells : cells[i] = c

\* morse.unionfind.UnionFind: uf[i] is the representative of i's component
uf_new(n) == [i \in 1 .. n |-> i]

uf_makeset(uf, i) == [uf EXCEPT ![i] = i]

uf_find(uf, i) == uf[i]

uf_union(uf, a, b) ==
    [k \in DOMAIN uf |-> IF uf[k] = uf[b] THEN uf[a] ELSE uf[k]]

RECURSIVE SignsFrom(_, _, _, _, _)
\* the labelling loop, lines 637-653: signs as the set of positive positions;
\* ok is FALSE when get_min_neib_msgraph raises.  The tests on uf and signs are
\* never true: they make TLC evaluate both before the next call
SignsFrom(cells, g, i, uf, signs) ==
    IF i > Len(cells) \/ uf = <<>> \/ -1 \in signs THEN [signs |-> signs, ok |-> TRUE]
    ELSE LET cidx == cells[i]
             uf1 == uf_makeset(uf, i)
         IN  IF dim(cidx) = 0
             THEN SignsFrom(cells, g, i + 1, uf1, signs \cup {i})
             ELSE IF dim(cidx) = 1
             THEN LET neighbours == get_min_neib_msgraph(g, cidx)
                  IN  IF ~NeibOk(neighbours)
                      THEN [signs |-> signs, ok |-> FALSE]
                      ELSE LET a == idx_reverse(cells, neighbours[1])
                               b == idx_reverse(cells, neighbours[2])
                           IN  SignsFrom(cells, g, i + 1, uf_union(uf1, a, b),
                                   IF uf_find(uf1, a) = uf_find(uf1, b)
                                   THEN signs \cup {i} ELSE signs)
             ELSE SignsFrom(cells, g, i + 1, uf1, signs)

\* lines 666-667
\* faulty variant of persistence: the difference of the smallest vertex values
persistence_of_min(cidx1, cidx2) ==
    Abs(_extvalue(cidx1)[Len(_extvalue(cidx1))]
        - _extvalue(cidx2)[Len(_extvalue(cidx2))])

persistence(cidx1, cidx2) == Abs(_extvalue(cidx1)[1] - _extvalue(cidx2)[1])

SetMax(S) == CHOOSE x \in S : \A y \in S : y <= x

SetMin(S) == CHOOSE x \in S : \A y \in S : x <= y

Xor(A, B) == (A \ B) \cup (B \ A)

RECURSIVE Reduce(_, _, _, _, _)
\* the loops "while curset.count() > 0" (lines 678-688 and 701-711): curset is
\* the set of positions whose bit is set, acc is [cycles, pairs], cycles a
\* function on the positions that have a cycle
Reduce(cells, i, curset, acc, forward) ==
    IF curset = {} THEN acc
    ELSE LET s == IF forward THEN SetMax(curset) ELSE SetMin(curset)
         IN  IF s \notin DOMAIN acc.cycles
             THEN Reduce(cells, i, curset,
                         [cycles |-> [k \in DOMAIN acc.cycles \cup {s, i} |->
                                         IF k \in {s, i} THEN curset
                                         ELSE acc.cycles[k]],
                          pairs |-> Append(acc.pairs,
                                       <<cells[i], cells[s],
                                         persistence(cells[i], cells[s])>>)],
                         forward)
             ELSE Reduce(cells, i, Xor(curset, acc.cycles[s]), acc, forward)

RECURSIVE ForwardPass(_, _, _, _, _)
\* lines 670-688 (the test on acc.pairs is never true: it makes TLC evaluate
\* acc before the next call)
ForwardPass(cells, g, signs, i, acc) ==
    IF i > Len(cells) \/ Len(acc.pairs) < 0 THEN acc
    ELSE IF dim(cells[i]) = 1 /\ i \notin signs
    THEN LET nb == get_min_neib_msgraph(g, cells[i])
             curset == {idx_reverse(cells, nb[k]) : k \in DOMAIN nb}
         IN  ForwardPass(cells, g, signs, i + 1,
                         Reduce(cells, i, curset, acc, TRUE))
    ELSE ForwardPass(cells, g, signs, i + 1, acc)

RECURSIVE ReversePass(_, _, _, _, _)
\* lines 693-711
ReversePass(cells, g, signs, i, acc) ==
    IF i < 1 \/ Len(acc.pairs) < 0 THEN acc
    ELSE IF dim(cells[i]) = 1 /\ i \in signs
    THEN LET nb == get_max_neib_msgraph(g, cells[i])
             curset == {idx_reverse(cells, nb[k]) : k \in DOMAIN nb}
         IN  ReversePass(cells, g, signs, i - 1,
                         Reduce(cells, i, curset, acc, FALSE))
    ELSE ReversePass(cells, g, signs, i - 1, acc)

RECURSIVE SortPairsAscending(_)
\* faulty variant of SortPairs: reverse=True forgotten
SortPairsAscending(s) ==
    IF s = <<>> THEN <<>>
    ELSE LET m == CHOOSE i \in DOMAIN s :
                      /\ \A j \in DOMAIN s : s[j][3] >= s[i][3]
                      /\ \A j \in 1 .. (i - 1) : s[j][3] # s[i][3]
         IN  <<s[m]>> \o SortPairsAscending(RemoveAt(s, m))

RECURSIVE SortPairs(_)
\* pairs.sort(key=lambda x: x[2], reverse=True): stable, descending
SortPairs(s) ==
    IF s = <<>> THEN <<>>
    ELSE LET m == CHOOSE i \in DOMAIN s :
                      /\ \A j \in DOMAIN s : s[j][3] <= s[i][3]
                      /\ \A j \in 1 .. (i - 1) : s[j][3] # s[i][3]
         IN  <<s[m]>> \o SortPairs(RemoveAt(s, m))

\* get_min_neib_msgraph / get_max_neib_msgraph raise ValueError for a saddle
\* without exactly two such neighbours
PersistentPairsOk(cells, g) ==
    LET sg == SignsFrom(cells, g, 1, uf_new(Len(cells)), {})
    IN  /\ sg.ok
        /\ \A i \in sg.signs :
               dim(cells[i]) = 1 => NeibOk(get_max_neib_msgraph(g, cells[i]))

cmp_persistent_pairs(cells, g) ==
    LET signs == SignsFrom(cells, g, 1, uf_new(Len(cells)), {}).signs
        fw == ForwardPass(cells, g, signs, 1, [cycles |-> <<>>, pairs |-> <<>>])
        bw == ReversePass(cells, g, signs, Len(cells), fw)
    IN  SortPairs(bw.pairs)

(***************************************************************************)
(* Cancellation of a pair.  Python lists: index i of a list of length n is *)
(* valid for -n <= i < n, a negative one counts from the end.              *)
(***************************************************************************)
PyIdxOk(l, i) == -Len(l) <= i /\ i < Len(l)

PyGet(l, i) == l[(IF i < 0 THEN i + Len(l) ELSE i) + 1]

\* del l[a:b]
PyDelSlice(l, a, b) ==
    LET n == Len(l)
        Clamp(i) == IF i < 0 THEN Max2(i + n, 0) ELSE IF i > n THEN n ELSE i
        lo == Clamp(a)
        hi == Clamp(b)
    IN  IF lo >= hi THEN l ELSE SubSeq(l, 1, lo) \o SubSeq(l, hi + 1, n)

RECURSIVE MustacheLen(_, _, _)
\* the inner while of _simplify_arc, lines 31-33; -1 when an index is out of range
MustacheLen(arc, it, mustache_len) ==
    IF ~PyIdxOk(arc, it - mustache_len - 1) \/ ~PyIdxOk(arc, it + mustache_len + 1)
    THEN -1
    ELSE IF PyGet(arc, it - mustache_len - 1) = PyGet(arc, it + mustache_len + 1)
    THEN MustacheLen(arc, it, mustache_len + 1)
    ELSE mustache_len

RECURSIVE SimplifyFrom(_, _, _)
\* the outer while of _simplify_arc, lines 28-38, as [arc, st]
SimplifyFrom(arc, it, arc_num) ==
    IF ~(it < arc_num - 2) THEN [arc |-> arc, st |-> "ok"]
    ELSE IF ~PyIdxOk(arc, it - 1) \/ ~PyIdxOk(arc, it + 1)
    THEN [arc |-> arc, st |-> "IndexError"]
    ELSE IF PyGet(arc, it - 1) = PyGet(arc, it + 1)
    THEN LET mustache_len == MustacheLen(arc, it, 1)
         IN  IF mustache_len < 0 THEN [arc |-> arc, st |-> "IndexError"]
             ELSE SimplifyFrom(PyDelSlice(arc, it - mustache_len, it + mustache_len),
                               it - mustache_len, arc_num - mustache_len * 2)
    ELSE SimplifyFrom(arc, it + 1, arc_num)

_simplify_arc(arc) == SimplifyFrom(arc, 0, Len(arc))

\* find_arc: the position in arcs[start_idx] of the first arc that ends at
\* end_idx, 0 when there is none (RuntimeError)
FindArcPos(a, start_idx, end_idx) ==
    LET hits == {k \in DOMAIN a[start_idx] :
                    a[start_idx][k][Len(a[start_idx][k])] = end_idx}
    IN  IF hits = {} THEN 0 ELSE SetMin(hits)

find_arc(a, start_idx, end_idx) == a[start_idx][FindArcPos(a, start_idx, end_idx)]

Reverse(l) == [i \in 1 .. Len(l) |-> l[Len(l) + 1 - i]]

\* del arcs[k]
DelKey(a, k) == [s \in DOMAIN a \ {k} |-> a[s]]

RECURSIVE FlipArc(_, _, _)
\* lines 750-751: set_gradient_arrow(arc[i], arc[i + 1]) for i = 0, 2, ...
FlipArc(m, arc, i) ==
    IF i >= Len(arc) THEN m
    ELSE FlipArc(set_gradient_arrow(m, arc[i], arc[i + 1]), arc, i + 2)

\* a state of the object: [V, cr_id, cr_cells, msgraph, arcs, ppairs], and the
\* outcome of an operation on it: [st, err], err = "" when it returned
Mem(st) == [V |-> st.V, cr_id |-> st.cr_id, cr_cells |-> st.cr_cells]

Raise(st, e) == [st |-> st, err |-> e]

\* what both cancellations compute first (lines 731-744 and 783-800): the
\* exception raised there, or ""
PairPrelude(st) ==
    LET pair == st.ppairs[Len(st.ppairs)]
        saddle == pair[1]
        extr == pair[2]
        nb == IF dim(extr) = 0 THEN get_min_neib_msgraph(st.msgraph, saddle)
              ELSE get_max_neib_msgraph(st.msgraph, saddle)
    IN  IF dim(saddle) # 1 THEN "AssertionError"
        ELSE IF dim(extr) = 1 THEN "AssertionError"
        ELSE IF extr \notin st.msgraph.nodes \/ saddle \notin st.msgraph.nodes
        THEN "NetworkXError"
        ELSE IF ~NeibOk(nb) THEN "ValueError"
        ELSE ""

\* lines 738-739 and 794-795
PairSaddles(st) ==
    LET pair == st.ppairs[Len(st.ppairs)]
        NotSaddle(u) == u # pair[1]
    IN  SelectSeq(Neighbours(st.msgraph, pair[2]), NotSaddle)

\* lines 741-744 and 797-800
PairOther(st) ==
    LET pair == st.ppairs[Len(st.ppairs)]
        mins_or_maxs == IF dim(pair[2]) = 0
                        THEN get_min_neib_msgraph(st.msgraph, pair[1])
                        ELSE get_max_neib_msgraph(st.msgraph, pair[1])
    IN  IF mins_or_maxs[1] # pair[2] THEN mins_or_maxs[1] ELSE mins_or_maxs[2]

RECURSIVE RewireGraph(_, _, _, _)
\* lines 803-806: remove_edge(s, extr); add_edge(s, min_or_max) for s in
\* saddles; the empty graph stands for NetworkXError
RewireGraph(g, saddles, extr, min_or_max) ==
    IF saddles = <<>> THEN g
    ELSE IF ~RemoveEdgeOk(g, Head(saddles), extr) THEN EmptyGraph
    ELSE RewireGraph(add_edge(remove_edge(g, Head(saddles), extr),
                              Head(saddles), min_or_max),
                     Tail(saddles), extr, min_or_max)

RECURSIVE RetraceArcs(_, _, _, _, _, _)
\* lines 759-762: for s in saddles, remove_edge(s, extr), add_edge(s,
\* min_or_max) and _cmp_arcs(s); as [g, arcs, st]
RetraceArcs(m, g, a, saddles, extr, min_or_max) ==
    IF saddles = <<>> THEN [g |-> g, arcs |-> a, st |-> "ok"]
    ELSE LET s == Head(saddles)
         IN  IF ~RemoveEdgeOk(g, s, extr)
             THEN [g |-> g, arcs |-> a, st |-> "NetworkXError"]
             ELSE IF s \notin DOMAIN a THEN [g |-> g, arcs |-> a, st |-> "KeyError"]
             ELSE LET r == _cmp_arcs(m, s)
                  IN  IF r.st # "ok" THEN [g |-> g, arcs |-> a, st |-> r.st]
                      ELSE RetraceArcs(m, add_edge(remove_edge(g, s, extr),
                                                   s, min_or_max),
                                       [a EXCEPT ![s] = r.arcs],
                                       Tail(saddles), extr, min_or_max)

\* eliminate_pair_revert_gradient, lines 716-766, with a pair to cancel
eliminate_pair_revert_gradient(st) ==
    LET pair == st.ppairs[Len(st.ppairs)]
        st0 == [st EXCEPT !.ppairs = SubSeq(@, 1, Len(@) - 1)]
        saddle == pair[1]
        extr == pair[2]
        pre == PairPrelude(st)
        saddles == PairSaddles(st)
        min_or_max == PairOther(st)
    IN  IF pre # "" THEN Raise(st0, pre)
        ELSE IF saddle \notin DOMAIN st.arcs THEN Raise(st0, "KeyError")
        ELSE IF FindArcPos(st.arcs, saddle, extr) = 0 THEN Raise(st0, "RuntimeError")
        ELSE LET arc == find_arc(st.arcs, saddle, extr)
             IN  IF Len(arc) % 2 # 0 THEN Raise(st0, "IndexError")
                 ELSE LET m1 == FlipArc(Mem(st), arc, 1)
                      IN  IF ~UnsetCriticalOk(m1, saddle) \/ ~UnsetCriticalOk(m1, extr)
                          THEN Raise(st0, "ValueError")
                          ELSE LET m2 == unset_critical(unset_critical(m1, saddle), extr)
                                   g1 == remove_node(st.msgraph, saddle)
                                   ra == RetraceArcs(m2, g1, DelKey(st.arcs, saddle),
                                                     saddles, extr, min_or_max)
                               IN  IF ra.st # "ok" THEN Raise(st0, ra.st)
                                   ELSE IF ~RemoveNodeOk(ra.g, extr)
                                   THEN Raise(st0, "NetworkXError")
                                   ELSE [st |-> [V |-> m2.V, cr_id |-> m2.cr_id,
                                                 cr_cells |-> m2.cr_cells,
                                                 msgraph |-> remove_node(ra.g, extr),
                                                 arcs |-> ra.arcs,
                                                 ppairs |-> st0.ppairs],
                                         err |-> ""]

RECURSIVE SpliceArcs(_, _, _, _)
\* lines 814-818: for s in saddles, extend the arc from s to extr and remove
\* its mustaches, in place; as [arcs, st]
SpliceArcs(a, saddles, extr, arc_extension) ==
    IF saddles = <<>> THEN [arcs |-> a, st |-> "ok"]
    ELSE LET s == Head(saddles)
         IN  IF s \notin DOMAIN a THEN [arcs |-> a, st |-> "KeyError"]
             ELSE IF FindArcPos(a, s, extr) = 0 THEN [arcs |-> a, st |-> "RuntimeError"]
             ELSE LET k == FindArcPos(a, s, extr)
                      r == _simplify_arc(a[s][k] \o arc_extension)
                  IN  IF r.st # "ok" THEN [arcs |-> a, st |-> r.st]
                      ELSE SpliceArcs([a EXCEPT ![s] = [@ EXCEPT ![k] = r.arc]],
                                      Tail(saddles), extr, arc_extension)

\* eliminate_pair_change_msgraph, lines 768-825, with a pair to cancel
eliminate_pair_change_msgraph(st) ==
    LET pair == st.ppairs[Len(st.ppairs)]
        st0 == [st EXCEPT !.ppairs = SubSeq(@, 1, Len(@) - 1)]
        saddle == pair[1]
        extr == pair[2]
        pre == PairPrelude(st)
        saddles == PairSaddles(st)
        min_or_max == PairOther(st)
    IN  IF pre # "" THEN Raise(st0, pre)
        ELSE LET g1 == remove_node(st.msgraph, saddle)
                 g2 == RewireGraph(g1, saddles, extr, min_or_max)
             IN  IF ~RemoveNodeOk(g2, extr) THEN Raise(st0, "NetworkXError")
                 ELSE IF saddle \notin DOMAIN st.arcs THEN Raise(st0, "KeyError")
                 ELSE IF FindArcPos(st.arcs, saddle, extr) = 0
                         \/ FindArcPos(st.arcs, saddle, min_or_max) = 0
                 THEN Raise(st0, "RuntimeError")
                 ELSE LET to_extr == find_arc(st.arcs, saddle, extr)
                          arc_extension ==
                              Reverse(SubSeq(to_extr, 2, Len(to_extr) - 1))
                              \o find_arc(st.arcs, saddle, min_or_max)
                          sp == SpliceArcs(st.arcs, saddles, extr, arc_extension)
                          m == Mem(st)
                      IN  IF sp.st # "ok" THEN Raise(st0, sp.st)
                          ELSE IF ~UnsetCriticalOk(m, saddle) \/ ~UnsetCriticalOk(m, extr)
                          THEN Raise(st0, "ValueError")
                          ELSE LET m2 == unset_critical(unset_critical(m, saddle), extr)
                               IN  [st |-> [V |-> m2.V, cr_id |-> m2.cr_id,
                                            cr_cells |-> m2.cr_cells,
                                            msgraph |-> remove_node(g2, extr),
                                            arcs |-> DelKey(sp.arcs, saddle),
                                            ppairs |-> st0.ppairs],
                                    err |-> ""]

\* the cancellation a simplify_* method calls on each turn of its loop (lines
\* 854-857, 893-896, 929-932); with no pair left the call prints and returns
EliminateOnce(st, method) ==
    IF st.ppairs = <<>> THEN [st |-> st, err |-> ""]
    ELSE IF method = "gradient" THEN eliminate_pair_revert_gradient(st)
    ELSE eliminate_pair_change_msgraph(st)

RECURSIVE EliminateLoop(_, _, _)
\* for i in range(pairs_elimination_num): one cancellation per turn; an
\* exception or a cancellation that does not return ends the loop
EliminateLoop(st, pairs_elimination_num, method) ==
    IF pairs_elimination_num <= 0 THEN [st |-> st, err |-> ""]
    ELSE CHOOSE out \in
             {IF r.err # "" THEN r
              ELSE EliminateLoop(r.st, pairs_elimination_num - 1, method) :
                  r \in {EliminateOnce(st, method)}} : TRUE

possible_methods == {"gradient", "arc"}

(***************************************************************************)
(* The state machine.                                                      *)
(***************************************************************************)
\* the input fields: values[x, y] = a * (x * H + y + b)^3 mod 29, pairwise
\* distinct on grids of up to 29 - b vertices (cubing permutes the residues
\* mod 29)
FieldGen(W, H, a, b) ==
    [p \in (0 .. (W - 1)) \X (0 .. (H - 1)) |->
        LET n == p[1] * H + p[2] + b IN (a * n * n * n) % 29]

Distinct(f) == \A p, q \in DOMAIN f : p # q => f[p] # f[q]

State == [V |-> V, cr_id |-> cr_id, cr_cells |-> cr_cells,
          msgraph |-> msgraph, arcs |-> arcs, ppairs |-> ppairs]

\* the object after __init__, lines 46-56
InitObject ==
    /\ V = [c \in Cells |-> None]
    /\ cr_id = [c \in Cells |-> FALSE]
    /\ cr_cells = <<>>
    /\ msgraph = EmptyGraph
    /\ arcs = <<>>
    /\ ppairs = <<>>
    /\ pc = "new"
    /\ err = ""
    /\ last = <<>>
    /\ workers = <<>>
    /\ touched = [c \in Cells |-> {}]

\* TorusMesh(*field.shape) and set_values(field), lines 46-62 and 1138-1139,
\* for the fields on grids of at most side x side vertices
InitMesh(side) ==
    /\ sizeX \in 3 .. side
    /\ sizeY \in 3 .. side
    /\ values \in {f \in {FieldGen(sizeX, sizeY, a, b) :
                               a \in 1 .. MaxA, b \in 0 .. MaxB} : Distinct(f)}
    /\ InitObject

\* the field of test(), line 1152
TestField ==
    LET field == <<<<2, 8, 1, 10>>, <<9, 5, 6, 11>>, <<7, 3, 4, 12>>>>
    IN  [p \in (0 .. 2) \X (0 .. 3) |-> field[p[1] + 1][p[2] + 1]]

\* m = TorusMesh(3, 4); m.set_values(field), lines 1152-1154
InitTest ==
    /\ sizeX = 3
    /\ sizeY = 4
    /\ values = TestField
    /\ InitObject

Init ==
    /\ InitMesh(MaxSide) \/ InitTest
    /\ threads_num = 8

\* cmp_discrete_gradient, lines 415-502, as a whole
CmpDiscreteGradient ==
    /\ pc = "new" /\ err = ""
    /\ LET m == SequentialGradient
       IN  /\ V' = m.V
           /\ cr_id' = m.cr_id
           /\ cr_cells' = m.cr_cells
    /\ pc' = "gradient"
    /\ UNCHANGED <<sizeX, sizeY, values, msgraph, arcs, ppairs, err, last,
                   threads_num, workers, touched>>

\* cmp_msgraph, lines 524-562
CmpMsgraph ==
    /\ pc = "gradient" /\ err = ""
    /\ IF MsgraphOk(Mem(State))
       THEN msgraph' = cmp_msgraph(Mem(State)) /\ err' = "" /\ pc' = "msgraph"
       ELSE msgraph' = msgraph /\ err' = "TypeError" /\ pc' = pc
    /\ UNCHANGED <<sizeX, sizeY, values, V, cr_id, cr_cells, arcs, ppairs, last,
                   threads_num, workers, touched>>

\* cmp_arcs, lines 608-615
CmpArcs ==
    /\ pc = "msgraph" /\ err = ""
    /\ IF CmpArcsStatus(Mem(State)) = "ok"
       THEN arcs' = cmp_arcs(Mem(State)) /\ err' = "" /\ pc' = "arcs"
       ELSE arcs' = arcs /\ err' = CmpArcsStatus(Mem(State)) /\ pc' = pc
    /\ UNCHANGED <<sizeX, sizeY, values, V, cr_id, cr_cells, msgraph, ppairs,
                   last, threads_num, workers, touched>>

\* cmp_persistent_pairs, lines 617-714; with it build_all has returned
CmpPersistentPairs ==
    /\ pc = "arcs" /\ err = ""
    /\ IF PersistentPairsOk(cr_cells, msgraph)
       THEN ppairs' = cmp_persistent_pairs(cr_cells, msgraph)
            /\ err' = "" /\ pc' = "built"
       ELSE ppairs' = ppairs /\ err' = "ValueError" /\ pc' = pc
    /\ UNCHANGED <<sizeX, sizeY, values, V, cr_id, cr_cells, msgraph, arcs,
                   last, threads_num, workers, touched>>

\* one call of a cancellation; r is its outcome [st, err].  An exception or a
\* loop without end finishes the run: err names it and no action is enabled
\* any more
Eliminate(method, r) ==
    /\ V' = r.st.V
    /\ cr_id' = r.st.cr_id
    /\ cr_cells' = r.st.cr_cells
    /\ msgraph' = r.st.msgraph
    /\ arcs' = r.st.arcs
    /\ ppairs' = r.st.ppairs
    /\ err' = r.err
    /\ last' = [method |-> method, pair |-> ppairs[Len(ppairs)]]
    /\ pc' = "simplified"
    /\ UNCHANGED <<sizeX, sizeY, values, threads_num, workers, touched>>

EliminatePairRevertGradient ==
    /\ pc \in {"built", "simplified"} /\ err = ""
    /\ IF ppairs = <<>> THEN UNCHANGED vars
       ELSE Eliminate("gradient", eliminate_pair_revert_gradient(State))

EliminatePairChangeMsgraph ==
    /\ pc \in {"built", "simplified"} /\ err = ""
    /\ IF ppairs = <<>> THEN UNCHANGED vars
       ELSE Eliminate("arc", eliminate_pair_change_msgraph(State))

Next ==
    \/ CmpDiscreteGradient
    \/ CmpMsgraph
    \/ CmpArcs
    \/ CmpPersistentPairs
    \/ EliminatePairRevertGradient
    \/ EliminatePairChangeMsgraph

Spec == Init /\ [][Next]_vars

(***************************************************************************)
(* build_all followed by calls of simplify_by_pairs_remained and of        *)
(* simplify_by_level.  A call is one step up to the for loop and one step  *)
(* per turn of the loop; last records the call: its name, argument and     *)
(* method, whether it warned, the state of the object when it was called   *)
(* (before) and the turns of the loop still to come (todo).  The call has  *)
(* returned when todo is 0 and err is "".                                  *)
(***************************************************************************)
\* no call is under way
Idle == pc \in {"built", "simplified"} /\ err = "" /\ (last # <<>> => last.todo = 0)

\* the call op(arg, method) up to its for loop: it raises e, or returns at
\* once after a warning, or goes on to pairs_elimination_num turns
BeginCall(op, arg, method, e, warned, pairs_elimination_num) ==
    /\ err' = e
    /\ last' = [op |-> op, arg |-> arg, method |-> method, warned |-> warned,
                before |-> State, todo |-> pairs_elimination_num]
    /\ pc' = "simplified"
    /\ UNCHANGED <<sizeX, sizeY, values, V, cr_id, cr_cells, msgraph, arcs,
                   ppairs, threads_num, workers, touched>>

\* simplify_by_pairs_remained, lines 901-922
SimplifyByPairsRemained ==
    /\ Idle
    /\ \E pairs_remained \in 0 .. MaxRemained : \E method \in possible_methods :
           IF pairs_remained > Len(ppairs)
           THEN BeginCall("pairs_remained", pairs_remained, method, "", TRUE, 0)
           ELSE IF pairs_remained < 2
           THEN BeginCall("pairs_remained", pairs_remained, method,
                          "AssertionError", FALSE, 0)
           ELSE BeginCall("pairs_remained", pairs_remained, method, "", FALSE,
                          Len(ppairs) - pairs_remained)

\* simplify_by_level, lines 827-847
SimplifyByLevel ==
    /\ Idle
    /\ \E level \in 0 .. MaxLevel : \E method \in possible_methods :
           BeginCall("level", level, method, "", FALSE,
                     Cardinality({i \in DOMAIN ppairs : ppairs[i][3] < level}))

\* one turn of the for loop, lines 849-857 and 924-932: one cancellation by
\* the method of the call
SimplifyTurn ==
    /\ pc = "simplified" /\ err = "" /\ last.todo > 0
    /\ \E r \in {EliminateOnce(State, last.method)} :
           /\ V' = r.st.V
           /\ cr_id' = r.st.cr_id
           /\ cr_cells' = r.st.cr_cells
           /\ msgraph' = r.st.msgraph
           /\ arcs' = r.st.arcs
           /\ ppairs' = r.st.ppairs
           /\ err' = r.err
    /\ last' = [last EXCEPT !.todo = @ - 1]
    /\ UNCHANGED <<sizeX, sizeY, values, pc, threads_num, workers, touched>>

NextSimplify ==
    \/ CmpDiscreteGradient
    \/ CmpMsgraph
    \/ CmpArcs
    \/ CmpPersistentPairs
    \/ SimplifyByPairsRemained
    \/ SimplifyByLevel
    \/ SimplifyTurn

SpecSimplify == Init /\ [][NextSimplify]_vars

(***************************************************************************)
(* cmp_discrete_gradient with its worker threads.  A worker's step is one  *)
(* turn of a loop of _process_star; touched[c] collects the vertices whose *)
(* processing has read or written V[c] or cr_id[c].  set_critical is two   *)
(* steps of a worker: the write of cr_id[idx] belongs to the turn, the     *)
(* call cr_cells.append(idx) is a step of its own (one call of the list,   *)
(* which the interpreter runs undivided), and pending is the cell between  *)
(* the two.                                                                *)
(***************************************************************************)
\* lines 479-481
cell_num_in_thread == size \div threads_num

cell_blocks ==
    [i \in 1 .. threads_num |->
        <<cell_num_in_thread * (i - 1),
          IF i = threads_num THEN size ELSE cell_num_in_thread * i>>]

InitThreads ==
    /\ InitMesh(MaxThreadSide)
    /\ threads_num \in 1 .. MaxThreads

Touch(acc, v) == [c \in Cells |-> IF c \in acc THEN touched[c] \cup {v} ELSE touched[c]]

\* the cell a step r has marked critical (line 262) and has still to append
\* (line 263), None when the step marked none
Appended(r) ==
    IF Len(r.m.cr_cells) > Len(cr_cells)
    THEN r.m.cr_cells[Len(r.m.cr_cells)]
    ELSE None

\* faulty variant of AfterStep: the worker keeps its heaps and its vertex as
\* they were before the step
AfterStepKeepsHeaps(w, r) == [w EXCEPT !.pending = Appended(r)]

\* what a worker keeps after a step r on its vertex: with both heaps empty the
\* while loop ends and the worker is at the next vertex of its block
AfterStep(w, r) ==
    IF r.pq_one = <<>> /\ r.pq_zero = <<>>
    THEN [w EXCEPT !.next = @ + 1, !.busy = FALSE, !.pending = Appended(r),
                   !.lstar = <<>>, !.pq_zero = <<>>, !.pq_one = <<>>]
    ELSE [w EXCEPT !.busy = TRUE, !.lstar = r.lstar, !.pending = Appended(r),
                   !.pq_zero = r.pq_zero, !.pq_one = r.pq_one]

\* lines 425-427 and 479-493: the arrays are reset, the threads created and
\* started
StartThreads ==
    /\ pc = "new" /\ err = ""
    /\ V' = EmptyMemory.V
    /\ cr_id' = EmptyMemory.cr_id
    /\ cr_cells' = EmptyMemory.cr_cells
    /\ workers' = [i \in 1 .. threads_num |->
                      [next |-> cell_blocks[i][1], stop |-> cell_blocks[i][2],
                       busy |-> FALSE, pending |-> None, lstar |-> <<>>,
                       pq_zero |-> <<>>, pq_one |-> <<>>]]
    /\ pc' = "threads"
    /\ UNCHANGED <<sizeX, sizeY, values, msgraph, arcs, ppairs, err, last,
                   threads_num, touched>>

\* worker t takes the next vertex of its block: lines 434-451
WorkerBegin(t) ==
    /\ pc = "threads"
    /\ ~workers[t].busy /\ workers[t].next < workers[t].stop
    /\ workers[t].pending = None
    /\ LET r == StarBegin(Mem(State), workers[t].next)
       IN  /\ V' = r.m.V
           /\ cr_id' = r.m.cr_id
           /\ cr_cells' = cr_cells
           /\ workers' = [workers EXCEPT ![t] = AfterStep(@, r)]
           /\ touched' = Touch(r.acc, workers[t].next)
    /\ UNCHANGED <<sizeX, sizeY, values, msgraph, arcs, ppairs, pc, err, last,
                   threads_num>>

\* worker t makes one turn of the while loop: lines 452-473
WorkerStep(t) ==
    /\ pc = "threads"
    /\ workers[t].busy
    /\ workers[t].pending = None
    /\ LET w == workers[t]
           r == StarStep(Mem(State), w.lstar, w.pq_zero, w.pq_one)
       IN  /\ V' = r.m.V
           /\ cr_id' = r.m.cr_id
           /\ cr_cells' = cr_cells
           /\ workers' = [workers EXCEPT ![t] = AfterStep(@, r)]
           /\ touched' = Touch(r.acc, w.next)
    /\ UNCHANGED <<sizeX, sizeY, values, msgraph, arcs, ppairs, pc, err, last,
                   threads_num>>

\* worker t appends the cell it has marked: cr_cells.append(idx), line 263
WorkerAppend(t) ==
    /\ pc = "threads"
    /\ workers[t].pending # None
    /\ cr_cells' = Append(cr_cells, workers[t].pending)
    /\ workers' = [workers EXCEPT ![t].pending = None]
    /\ UNCHANGED <<sizeX, sizeY, values, V, cr_id, msgraph, arcs, ppairs, pc,
                   err, last, threads_num, touched>>

\* lines 494-499: every thread has been joined, cr_cells is sorted
JoinThreads ==
    /\ pc = "threads"
    /\ \A t \in DOMAIN workers :
           /\ ~workers[t].busy /\ workers[t].next >= workers[t].stop
           /\ workers[t].pending = None
    /\ cr_cells' = SortByExt(cr_cells)
    /\ pc' = "gradient"
    /\ UNCHANGED <<sizeX, sizeY, values, V, cr_id, msgraph, arcs, ppairs, err,
                   last, threads_num, workers, touched>>

NextThreads ==
    \/ StartThreads
    \/ \E t \in DOMAIN workers : WorkerBegin(t)
    \/ \E t \in DOMAIN workers : WorkerStep(t)
    \/ \E t \in DOMAIN workers : WorkerAppend(t)
    \/ JoinThreads

SpecThreads == InitThreads /\ [][NextThreads]_vars

\* cmp_discrete_gradient(threads_num=1) on the fields that are not perturbed:
\* every field with values in 0 .. MaxTieValue, where neighbouring vertices
\* hold equal values
InitTies ==
    /\ sizeX \in 3 .. MaxThreadSide
    /\ sizeY \in 3 .. MaxThreadSide
    /\ values \in [(0 .. (sizeX - 1)) \X (0 .. (sizeY - 1)) -> 0 .. MaxTieValue]
    /\ InitObject
    /\ threads_num = 1

\* ENABLED <<WorkerBegin(t)>>_vars written out: the guard holds and the step
\* changes what it assigns
EnabledWorkerBegin(t) ==
    /\ pc = "threads"
    /\ ~workers[t].busy /\ workers[t].next < workers[t].stop
    /\ workers[t].pending = None
    /\ \E r \in {StarBegin(Mem(State), workers[t].next)} :
           <<r.m.V, r.m.cr_id, AfterStep(workers[t], r),
             Touch(r.acc, workers[t].next)>>
               # <<V, cr_id, workers[t], touched>>

\* ENABLED <<WorkerStep(t)>>_vars written out
EnabledWorkerStep(t) ==
    /\ pc = "threads"
    /\ workers[t].busy
    /\ workers[t].pending = None
    /\ \E w \in {workers[t]} :
       \E r \in {StarStep(Mem(State), w.lstar, w.pq_zero, w.pq_one)} :
           <<r.m.V, r.m.cr_id, AfterStep(w, r), Touch(r.acc, w.next)>>
               # <<V, cr_id, w, touched>>

\* ENABLED <<NextThreads>>_vars written out: StartThreads and JoinThreads
\* change pc and WorkerAppend lengthens cr_cells whenever their guards hold
EnabledNextThreads ==
    \/ pc = "new" /\ err = ""
    \/ \E t \in DOMAIN workers : EnabledWorkerBegin(t)
    \/ \E t \in DOMAIN workers : EnabledWorkerStep(t)
    \/ \E t \in DOMAIN workers : pc = "threads" /\ workers[t].pending # None
    \/ /\ pc = "threads"
       /\ \A t \in DOMAIN workers :
              /\ ~workers[t].busy /\ workers[t].next >= workers[t].stop
              /\ workers[t].pending = None

\* weak fairness of NextThreads, WF_vars(NextThreads), by its definition and
\* with ENABLED written out: a started thread runs its loops on as long as it
\* has a step to take, and join returns once every thread has ended
FairThreads == []<>(~EnabledNextThreads) \/ []<><<NextThreads>>_vars

SpecTies == InitTies /\ [][NextThreads]_vars /\ FairThreads

(***************************************************************************)
(* Calls of the indexing functions on a mesh of any size, sides of 1 and 2 *)
(* included; last records the call: its name, argument and result.         *)
(***************************************************************************)
InitCells ==
    /\ sizeX \in 1 .. MaxCellSide
    /\ sizeY \in 1 .. MaxCellSide
    /\ values \in {f \in {FieldGen(sizeX, sizeY, a, b) :
                               a \in 1 .. MaxA, b \in 0 .. MaxB} : Distinct(f)}
    /\ InitObject
    /\ threads_num = 8

\* a call of a function that reads the object and changes nothing in it, on
\* the object as constructed (one call in a run: a second one would find
\* the same object)
Call(op, arg, result) ==
    /\ pc = "new" /\ last = <<>>
    /\ last' = [op |-> op, arg |-> arg, result |-> result]
    /\ UNCHANGED <<sizeX, sizeY, values, V, cr_id, cr_cells, msgraph, arcs,
                   ppairs, pc, err, threads_num, workers, touched>>

\* m._extvalue(idx), lines 212-218
CallExtvalue == \E idx \in Cells : Call("_extvalue", idx, _extvalue(idx))

\* m._to_index(x, y), lines 83-87
CallToIndex ==
    \E x \in 0 .. (sizeX - 1) : \E y \in 0 .. (sizeY - 1) :
        Call("_to_index", <<x, y>>, _to_index(x, y))

\* m._facets(idx), lines 169-180
CallFacets == \E idx \in Cells : Call("_facets", idx, _facets(idx))

\* m._cofacets(idx), lines 182-195: AssertionError for a cell that is no edge
CallCofacets ==
    \E idx \in Cells :
        IF CofacetsOk(idx) THEN Call("_cofacets", idx, _cofacets(idx))
        ELSE Call("_cofacets", idx, "AssertionError")

\* m.star(idx), lines 372-378
CallStar == \E idx \in 0 .. (size - 1) : Call("star", idx, star(idx))

NextCells ==
    \/ CallExtvalue
    \/ CallToIndex
    \/ CallFacets
    \/ CallCofacets
    \/ CallStar

SpecCells == InitCells /\ [][NextCells]_vars

(***************************************************************************)
(* Properties of the gradient and of the complex build_all returns.        *)
(***************************************************************************)
PartialInvolution(v) ==
    {c \in Cells : v[c] # None /\ ~(/\ v[c] \in Cells
                                     /\ v[v[c]] = c
                                     /\ Abs(dim(v[c]) - dim(c)) = 1)} = {}

CritIffUnpaired(v, cr) == {c \in Cells : cr[c] # (v[c] = None)} = {}

\* no cell is both critical and paired
CritThenUnpaired(v, cr) == {c \in Cells : cr[c] /\ v[c] # None} = {}

Saddles == Range(cp(cr_cells, 1))

SaddleDegreeOk(g, s) ==
    /\ Len(get_min_neib_msgraph(g, s)) = 2
    /\ Len(get_max_neib_msgraph(g, s)) = 2

\* cmp_discrete_gradient has returned and nothing has been cancelled yet
AfterGradient == pc \in {"gradient", "msgraph", "arcs", "built"}

\* C1: after cmp_discrete_gradient on a W x H field (W, H >= 3, W # H
\* included) with pairwise distinct values, V is a partial involution between
\* cells of consecutive dimension: V[c] # None implies V[V[c]] = c and
\* |dim(V[c]) - dim(c)| = 1
C1_GradientIsPartialInvolution == AfterGradient => PartialInvolution(V)

\* a non-square grid with a vertex-edge arrow and an edge-face arrow
C1_Witness ==
    /\ pc = "gradient" /\ sizeX # sizeY
    /\ \E c \in Cells : dim(c) = 0 /\ V[c] # None
    /\ \E c \in Cells : dim(c) = 2 /\ V[c] # None

\* C2: after cmp_discrete_gradient a cell is marked critical exactly when it is
\* unpaired: cr_id[c] iff V[c] is None, for every cell c
C2_CriticalIffUnpaired == AfterGradient => CritIffUnpaired(V, cr_id)

\* critical cells of every dimension next to paired ones
C2_Witness ==
    /\ pc = "gradient"
    /\ \A d \in 0 .. 2 : \E c \in Cells : dim(c) = d /\ cr_id[c] /\ V[c] = None
    /\ \E c \in Cells : ~cr_id[c] /\ V[c] # None

\* C3: after build_all every critical 1-cell has, counted with multiplicity,
\* exactly two MS-graph edges to critical 0-cells and exactly two to critical
\* 2-cells, and cmp_persistent_pairs raised no ValueError
C3_SaddleDegreeAfterBuild ==
    /\ pc \in {"msgraph", "arcs", "built"} =>
           \A s \in Saddles : SaddleDegreeOk(msgraph, s)
    /\ pc = "arcs" => err = ""

\* a saddle whose two maximum neighbours are one and the same maximum
C3_Witness ==
    /\ pc = "built"
    /\ \E s \in Saddles :
           LET nb == get_max_neib_msgraph(msgraph, s)
           IN  Len(nb) = 2 /\ nb[1] = nb[2]
    /\ \E s \in Saddles :
           LET nb == get_min_neib_msgraph(msgraph, s)
           IN  Len(nb) = 2 /\ nb[1] # nb[2]

\* C4: after cmp_discrete_gradient the critical cells satisfy the Euler
\* characteristic of the torus: #minima - #saddles + #maxima = 0
C4_EulerCharacteristic ==
    AfterGradient =>
        Len(cp(cr_cells, 0)) - Len(cp(cr_cells, 1)) + Len(cp(cr_cells, 2)) = 0

\* a non-square grid with more critical cells than the torus needs
C4_Witness ==
    /\ pc = "gradient" /\ sizeX # sizeY
    /\ Len(cp(cr_cells, 1)) > 2
    /\ Len(cp(cr_cells, 0)) > 1

(***************************************************************************)
(* Properties of the cancellations.                                        *)
(***************************************************************************)
\* build_all has returned and no cancellation has failed
Live == pc \in {"built", "simplified"} /\ err = ""

\* a cancellation called now has a pair to cancel
CanCancel == Live /\ ppairs # <<>>

\* the last cancellation has returned
Completed == pc = "simplified" /\ err = ""

LastPair == ppairs[Len(ppairs)]

\* the number of MS-graph edges between s and e
EdgeMult(s, e) == CopiesIn({s, e}, msgraph.edges)

\* the number of arcs of s that end at e
ArcCount(s, e) ==
    IF s \in DOMAIN arcs
    THEN Cardinality({k \in DOMAIN arcs[s] : arcs[s][k][Len(arcs[s][k])] = e})
    ELSE 0

ArcEndsOk(s, arc) ==
    /\ arc[1] = s
    /\ cr_id[arc[Len(arc)]]
    /\ dim(arc[Len(arc)]) \in {0, 2}

\* C5: starting from a build_all result, each cancellation performed while
\* ppairs is non-empty completes, reduces the number of critical cells by
\* exactly 2 and the number of pairs by exactly 1, and leaves V a partial
\* involution between cells of consecutive dimension
C5_CancellationCompletes ==
    [][CanCancel => /\ err' = ""
                    /\ Len(cr_cells') = Len(cr_cells) - 2
                    /\ Len(ppairs') = Len(ppairs) - 1
                    /\ PartialInvolution(V')]_vars

\* the gradient reversal of a pair whose saddle is doubly adjacent to its
\* extremum never returns
C5_Witness ==
    /\ pc = "simplified" /\ err = "hang"
    /\ last.method = "gradient"

\* C6: after any sequence of cancellations, by either method, every remaining
\* critical 1-cell has exactly two minimum and exactly two maximum neighbours
\* in the MS graph, counted with multiplicity
C6_SaddleDegreeAfterCancellation ==
    Completed => \A s \in Saddles : SaddleDegreeOk(msgraph, s)

\* an arc-splicing cancellation that has returned and left a saddle with
\* other than 2 + 2 neighbours
C6_Witness ==
    /\ Completed /\ last.method = "arc"
    /\ \E s \in Saddles : ~SaddleDegreeOk(msgraph, s)

C9_ArcEndpoints ==
    Live => \A s \in DOMAIN arcs : \A k \in DOMAIN arcs[s] :
                ArcEndsOk(s, arcs[s][k])

\* an arc-splicing cancellation that has returned and left an arc ending at
\* the extremum it cancelled
C9_Witness ==
    /\ Completed /\ last.method = "arc"
    /\ \E s \in DOMAIN arcs : \E k \in DOMAIN arcs[s] :
           arcs[s][k][Len(arcs[s][k])] = last.pair[2]

\* C12: from one build_all result, cancelling the k pairs of lowest
\* persistence by gradient reversal and by arc splicing both complete and
\* leave the same set of critical cells, for every k from 0 to |ppairs|
C12_MethodsLeaveSameCriticalCells ==
    pc = "built" =>
        \A k \in 0 .. Len(ppairs) :
            LET g == EliminateLoop(State, k, "gradient")
                a == EliminateLoop(State, k, "arc")
            IN  /\ g.err = "" /\ a.err = ""
                /\ Range(g.st.cr_cells) = Range(a.st.cr_cells)

\* a build_all result with pairs all of which both methods cancel, leaving
\* the same critical cells
C12_Witness ==
    /\ pc = "built" /\ Len(ppairs) >= 2
    /\ \A k \in 0 .. Len(ppairs) :
           LET g == EliminateLoop(State, k, "gradient")
               a == EliminateLoop(State, k, "arc")
           IN  /\ g.err = "" /\ a.err = ""
               /\ Range(g.st.cr_cells) = Range(a.st.cr_cells)

\* whenever both methods complete on the same k pairs, the critical cells
\* they leave are the same
C12_SameCellsWhenBothComplete ==
    pc = "built" =>
        \A k \in 0 .. Len(ppairs) :
            LET g == EliminateLoop(State, k, "gradient")
                a == EliminateLoop(State, k, "arc")
            IN  (g.err = "" /\ a.err = "") =>
                    Range(g.st.cr_cells) = Range(a.st.cr_cells)

\* the largest of the values at the vertices of the cell c
MaxVertexValue(c) == SetMax({value(v) : v \in Range(_verts(c))})

\* C16: after cmp_persistent_pairs ppairs is sorted by persistence in
\* non-increasing order, and the persistence stored in a pair (a, b, p) is the
\* absolute difference of the largest vertex values of a and of b
C16_PairsSortedByPersistence ==
    pc \in {"built", "simplified"} =>
        /\ \A i, j \in DOMAIN ppairs : i < j => ppairs[i][3] >= ppairs[j][3]
        /\ \A i \in DOMAIN ppairs :
               ppairs[i][3] = Abs(MaxVertexValue(ppairs[i][1])
                                  - MaxVertexValue(ppairs[i][2]))

\* build_all returns at least three pairs, of a saddle with a minimum and of
\* a saddle with a maximum, not all of the same persistence
C16_Witness ==
    /\ pc = "built" /\ Len(ppairs) >= 3
    /\ ppairs[1][3] > ppairs[Len(ppairs)][3]
    /\ \E i, j \in DOMAIN ppairs : dim(ppairs[i][2]) = 0 /\ dim(ppairs[j][2]) = 2

\* the critical cells of dimension d
CritOfDim(d) == {c \in Cells : cr_id[c] /\ dim(c) = d}

\* the vertex that holds the value v
VertexOfValue(v) == CHOOSE idx \in 0 .. (size - 1) : value(idx) = v

\* test() has run cmp_discrete_gradient and no cancellation yet
TestGradientDone ==
    /\ sizeX = 3 /\ sizeY = 4 /\ values = TestField
    /\ pc \in {"gradient", "msgraph", "arcs", "built"}

OneMaximumAtTwelve ==
    /\ Cardinality(CritOfDim(2)) = 1
    /\ \A c \in CritOfDim(2) : VertexOfValue(12) \in Range(_verts(c))

PairsRemainedCall == pc = "simplified" /\ last.op = "pairs_remained"

\* a call of simplify_by_level has been made
LevelCall == pc = "simplified" /\ last.op = "level"

\* the call under way has returned
Returned == err = "" /\ last.todo = 0

ComplexUnchanged == State = last.before

\* C13: for 2 <= k <= |ppairs| simplify_by_pairs_remained(k, method) returns
\* normally and leaves exactly the k pairs of highest persistence in ppairs;
\* for k > |ppairs| it returns and changes nothing
C13_PairsRemained ==
    PairsRemainedCall =>
        /\ (2 <= last.arg /\ last.arg <= Len(last.before.ppairs)) =>
               /\ err = ""
               /\ Returned => ppairs = SubSeq(last.before.ppairs, 1, last.arg)
        /\ last.arg > Len(last.before.ppairs) =>
               Returned /\ ComplexUnchanged

\* a call with k = 2 that has returned from a state with more than two pairs
C13_Witness ==
    /\ PairsRemainedCall /\ Returned
    /\ last.arg = 2 /\ Len(last.before.ppairs) > 2

\* what holds of C13 whenever the call returns: the k pairs of highest
\* persistence are left, and with k > |ppairs| nothing has changed
C13_PairsRemainedWhenReturned ==
    PairsRemainedCall =>
        /\ (2 <= last.arg /\ last.arg <= Len(last.before.ppairs) /\ Returned) =>
               ppairs = SubSeq(last.before.ppairs, 1, last.arg)
        /\ last.arg > Len(last.before.ppairs) =>
               Returned /\ ComplexUnchanged

\* C14: simplify_by_pairs_remained(k, method) with k < 2 raises an error and
\* cancels nothing, in every state, also with fewer than k pairs present
C14_FewerThanTwoIsFatal ==
    (PairsRemainedCall /\ last.arg < 2) =>
        err = "AssertionError" /\ ComplexUnchanged

\* a call with k = 1 on an empty ppairs has returned after a warning
C14_Witness ==
    /\ PairsRemainedCall /\ Returned
    /\ last.arg = 1 /\ last.before.ppairs = <<>>
    /\ last.warned

\* what holds of C14: a call with k < 2 and at least k pairs present raises
\* AssertionError and changes nothing
C14_FatalWhenEnoughPairs ==
    (PairsRemainedCall /\ last.arg < 2 /\ last.arg <= Len(last.before.ppairs)) =>
        err = "AssertionError" /\ ComplexUnchanged

\* C15: simplify_by_level(level, method) cancels from the end of ppairs, one
\* pair at a time, returns normally, and has then cancelled exactly the pairs
\* of persistence < level; with level 0 it changes nothing
C15_ByLevel ==
    LevelCall =>
        /\ err = ""
        /\ ppairs = SubSeq(last.before.ppairs, 1, Len(ppairs))
        /\ Returned =>
               \A i \in DOMAIN last.before.ppairs :
                   (i <= Len(ppairs)) <=> (last.before.ppairs[i][3] >= last.arg)
        /\ last.arg = 0 => Returned /\ ComplexUnchanged

\* a call that has returned having cancelled some pairs and left others
C15_Witness ==
    /\ LevelCall /\ Returned
    /\ Len(last.before.ppairs) > Len(ppairs) /\ ppairs # <<>>

\* what holds of C15 whenever the call returns: exactly the pairs of
\* persistence < level have been cancelled, from the end of ppairs
C15_ByLevelWhenReturned ==
    LevelCall =>
        /\ ppairs = SubSeq(last.before.ppairs, 1, Len(ppairs))
        /\ Returned =>
               \A i \in DOMAIN last.before.ppairs :
                   (i <= Len(ppairs)) <=> (last.before.ppairs[i][3] >= last.arg)
        /\ last.arg = 0 => Returned /\ ComplexUnchanged

(***************************************************************************)
(* Properties of the worker threads.                                       *)
(***************************************************************************)
\* c is in the lower star of the vertex v: a cell of the star of v none of whose
\* vertices has a larger value than v
InLowerStar(c, v) ==
    /\ c \in Range(star(v))
    /\ \A u \in Range(_verts(c)) : value(u) <= value(v)

\* C10: for every threads_num >= 1 and every interleaving of the workers, no
\* entry of V or cr_id is read or written by the processing of two different
\* vertices (processing v touches only v and the cells of v's lower star), and
\* the resulting V and cr_id are those of processing the vertices one after
\* the other
C10_VerticesTouchDisjointCells ==
    /\ \A c \in Cells : \A v \in touched[c] :
           /\ touched[c] = {v}
           /\ c = v \/ InLowerStar(c, v)
    /\ pc = "gradient" =>
           /\ V = SequentialGradient.V
           /\ cr_id = SequentialGradient.cr_id

\* two workers, both in the middle of a lower star, after the second has
\* added a critical cell before the first
C10_Witness ==
    /\ pc = "threads" /\ threads_num = 2
    /\ workers[1].busy /\ workers[2].busy
    /\ cr_cells # <<>> /\ cr_cells[1] \in Range(workers[2].lstar)
    /\ \E c \in Cells : touched[c] = {workers[1].next}

\* the number of entries of the list l that are the cell c
Count(c, l) == Cardinality({i \in DOMAIN l : l[i] = c})

\* the workers that have marked c critical and have not appended it yet
Pending(c) == {t \in DOMAIN workers : workers[t].pending = c}

HasTie ==
    \E v \in 0 .. (size - 1) :
        value(v) = value(_vleft(v)) \/ value(v) = value(_vtop(v))

HeapsEmpty ==
    \A t \in DOMAIN workers :
        /\ workers[t].pq_zero = <<>> /\ workers[t].pq_one = <<>>
        /\ ~workers[t].busy /\ workers[t].next = workers[t].stop

\* C18: cmp_discrete_gradient terminates on every field, ties included: the
\* processing of every vertex's lower star empties both heaps and the
\* operation returns
C18_GradientTerminatesOnTies ==
    <>(pc = "gradient" /\ workers # <<>> /\ HeapsEmpty)

\* on a field with ties a worker is in the while loop with a cell in each heap
C18_Witness ==
    /\ pc = "threads" /\ HasTie
    /\ \E t \in DOMAIN workers :
           /\ workers[t].busy
           /\ workers[t].pq_zero # <<>> /\ workers[t].pq_one # <<>>
           /\ \E u \in {_vleft(workers[t].next), _vtop(workers[t].next),
                         _vright(workers[t].next), _vbottom(workers[t].next)} :
                  value(u) = value(workers[t].next)

(***************************************************************************)
(* Properties of the indexing functions.                                   *)
(***************************************************************************)
ExtvalueCall == last # <<>> /\ last.op = "_extvalue"

\* the cells other than the one of the call that have the extended value the
\* call returned
SameExtvalue == {d \in Cells \ {last.arg} : _extvalue(d) = last.result}

\* C19 as stated: on a grid of any size with pairwise distinct vertex values
\* no two distinct cells have equal _extvalue tuples
C19_ExtvalueStrictOnEveryGrid == ExtvalueCall => SameExtvalue = {}

\* C19 amended: with pairwise distinct vertex values no two distinct cells
\* have equal _extvalue tuples on a grid with both sides at least 3; on a
\* grid with a side of 2 every edge across that side and every face has
\* another cell with the same _extvalue
C19_ExtvalueStrictFromSideThree ==
    ExtvalueCall =>
        /\ (sizeX >= 3 /\ sizeY >= 3) => SameExtvalue = {}
        /\ (sizeX = 2 /\ sizeY >= 2 /\ last.arg >= 3 * size) => SameExtvalue # {}
        /\ (sizeY = 2 /\ sizeX >= 2 /\ last.arg >= 3 * size) => SameExtvalue # {}
        /\ (sizeX = 2 /\ last.arg \in size .. (2 * size - 1)) => SameExtvalue # {}
        /\ (sizeY = 2 /\ last.arg \in (2 * size) .. (3 * size - 1))
               => SameExtvalue # {}

\* _extvalue has been called on a face of a non-square grid with sides of at
\* least 3
C19_Witness ==
    /\ ExtvalueCall /\ sizeX >= 3 /\ sizeY >= 3 /\ sizeX # sizeY
    /\ dim(last.arg) = 2 /\ Len(last.result) = 4

ToIndexCall == last # <<>> /\ last.op = "_to_index"

\* C20: the vertex at the grid position (x, y) has the id x * H + y, which
\* is what _to_index(x, y) returns: its value is values[x, y] and its coordx
\* and coordy are x and y
C20_ToIndexIsTheVertexAt ==
    ToIndexCall =>
        /\ last.result = last.arg[1] * sizeY + last.arg[2]
        /\ value(last.result) = values[last.arg]
        /\ <<coordx(last.result), coordy(last.result)>> = last.arg

\* _to_index has been called with x # y on a square and on a non-square grid
C20_Witness ==
    /\ ToIndexCall /\ last.arg[1] # last.arg[2]
    /\ sizeX >= 3 /\ sizeY > sizeX
    /\ last.result = last.arg[1] * sizeY + last.arg[2]

\* what holds instead: the vertex whose scalar is values[x, y] is the one
\* with id x + y * W, and _to_index returns x * H + y
C20_VertexIdIsXPlusYTimesW ==
    ToIndexCall =>
        /\ last.result = last.arg[1] * sizeY + last.arg[2]
        /\ \A idx \in 0 .. (size - 1) :
               (value(idx) = values[last.arg])
                   <=> (idx = last.arg[1] + last.arg[2] * sizeX)
        /\ \A idx \in 0 .. (size - 1) :
               (<<coordx(idx), coordy(idx)>> = last.arg)
                   <=> (idx = last.arg[1] + last.arg[2] * sizeX)

\* the walk of lines 581-588 from a vertex, or of lines 598-605 from a face,
\* comes back to a cell it has left: V has a closed V-path
ClosedVPathFrom(c) ==
    \/ dim(c) = 0 /\ WalkMin(Mem(State), c, <<c>>, {}).st = "hang"
    \/ dim(c) = 2 /\ WalkMax(Mem(State), c, <<c>>, {}).st = "hang"

NoClosedVPath == {c \in Cells : ClosedVPathFrom(c)} = {}

\* the last call was a gradient reversal
GradientCall == pc = "simplified" /\ last.method = "gradient"

\* C23: arc tracing always terminates: neither cmp_arcs in build_all nor the
\* _cmp_arcs calls of a gradient reversal walk for ever, and after build_all
\* and after every gradient reversal V has no closed V-path
C23_ArcTracingTerminates ==
    /\ pc = "msgraph" => err # "hang"
    /\ GradientCall => err # "hang"
    /\ (pc \in {"arcs", "built"} /\ err = "") => NoClosedVPath
    /\ (GradientCall /\ err = "") => NoClosedVPath

\* a gradient reversal of a pair whose saddle had two MS-graph edges to the
\* extremum walks for ever
C23_Witness ==
    /\ GradientCall /\ err = "hang"
    /\ EdgeMult(last.pair[1], last.pair[2]) = 2

\* what holds: the walks of build_all end, the walks of a gradient reversal
\* end unless the saddle had two edges to the extremum, and V has no closed
\* V-path in the states the calls return in
C23_TerminatesUnlessDoublyAdjacent ==
    /\ pc = "msgraph" => err # "hang"
    /\ (GradientCall /\ err = "hang") =>
           EdgeMult(last.pair[1], last.pair[2]) = 2
    /\ (pc \in {"arcs", "built"} /\ err = "") => NoClosedVPath
    /\ (GradientCall /\ err = "") => NoClosedVPath

\* the arcs of the saddle s end where its MS-graph edges go, as often
ArcsMatchEdges(s) ==
    {e \in Cells : ArcCount(s, e) # EdgeMult(s, e)} = {}

GraphMatchesArcs ==
    /\ msgraph.nodes = Range(cr_cells)
    /\ DOMAIN arcs = Saddles
    /\ {s \in Saddles : ~ArcsMatchEdges(s)} = {}

\* C24: after build_all and after every completed cancellation, by either
\* method, the nodes of msgraph are the critical cells, the keys of arcs are
\* the critical 1-cells, and the last cells of the arcs of every saddle are,
\* as a multiset, its MS-graph neighbours
C24_GraphAndArcsConsistent == Live => GraphMatchesArcs

\* a cancellation has returned and left some saddles
C24_Witness == Completed /\ Saddles # {} /\ GraphMatchesArcs

\* what holds: build_all leaves the graph and the arcs consistent, and so
\* does every completed cancellation of a pair whose saddle has one edge to
\* its extremum, when they were consistent before
C24_ConsistentUnlessDoublyAdjacent ==
    /\ [][pc' = "built" => GraphMatchesArcs']_vars
    /\ [][(CanCancel /\ GraphMatchesArcs /\ err' = ""
             /\ EdgeMult(LastPair[1], LastPair[2]) = 1)
            => GraphMatchesArcs']_vars

\* build_all has returned and no pair has been cancelled yet
Built == pc = "built" /\ err = ""

PairedCells == {ppairs[k][1] : k \in DOMAIN ppairs} \cup {ppairs[k][2] : k \in DOMAIN ppairs}

\* every pair is a critical 1-cell with a critical 0- or 2-cell
PairsAreSaddleExtremum ==
    {k \in DOMAIN ppairs :
        ~(/\ cr_id[ppairs[k][1]] /\ dim(ppairs[k][1]) = 1
          /\ cr_id[ppairs[k][2]] /\ dim(ppairs[k][2]) \in {0, 2})} = {}

\* no critical cell is in two pairs
PairsDisjoint == Cardinality(PairedCells) = 2 * Len(ppairs)

\* the first critical cell of the filtration is the global minimum, the last
\* one the global maximum
EssentialUnpaired ==
    /\ cr_cells[1] \notin PairedCells
    /\ cr_cells[Len(cr_cells)] \notin PairedCells
    /\ Len(ppairs) = Cardinality(Saddles) - 2

\* no saddle is paired with a cell that is both of its minimum neighbours or
\* both of its maximum neighbours
NoPairOfDoublyAdjacent ==
    {k \in DOMAIN ppairs : EdgeMult(ppairs[k][1], ppairs[k][2]) = 2} = {}

\* C25: after cmp_persistent_pairs on a build_all result every pair is a
\* critical 1-cell with a critical 0- or 2-cell, no critical cell is in two
\* pairs, the global minimum, the global maximum and two saddles stay
\* unpaired (|ppairs| = number of saddles - 2), and no saddle is paired with
\* a cell that is both of its maximum (or minimum) neighbours
C25_PairsLeaveTheEssentialClasses ==
    Built => /\ PairsAreSaddleExtremum
             /\ PairsDisjoint
             /\ EssentialUnpaired
             /\ NoPairOfDoublyAdjacent

\* build_all has returned with a saddle paired with the maximum that is both
\* of its maximum neighbours
C25_Witness ==
    /\ Built
    /\ \E k \in DOMAIN ppairs :
           /\ dim(ppairs[k][2]) = 2
           /\ EdgeMult(ppairs[k][1], ppairs[k][2]) = 2

\* what holds: the pairs are saddle-extremum pairs, no cell is in two of
\* them and there are never fewer than (number of saddles) - 2
C25_PairsAreDisjointSaddleExtremumPairs ==
    Built => /\ PairsAreSaddleExtremum
             /\ PairsDisjoint
             /\ Len(ppairs) >= Cardinality(Saddles) - 2

\* cr_cells is in ascending order of extended value
SortedByExt(cells) ==
    {i \in 1 .. (Len(cells) - 1) :
        LexLess(_extvalue(cells[i + 1]), _extvalue(cells[i]))} = {}

\* C26: after cmp_discrete_gradient and after every sequence of cancellations
\* cr_cells has no cell twice, holds exactly the cells whose bit in cr_id is
\* set, and is in ascending order of extended value
C26_ListAndBitmapAgree ==
    (AfterGradient \/ Completed) /\ err = "" =>
        /\ Cardinality(Range(cr_cells)) = Len(cr_cells)
        /\ Range(cr_cells) = {c \in Cells : cr_id[c]}
        /\ SortedByExt(cr_cells)

\* a cancellation has returned: the two cells of its pair have left the list
\* and the bitmap, and at least four critical cells are left
C26_Witness ==
    /\ Completed /\ Len(cr_cells) >= 4
    /\ ~cr_id[last.pair[1]] /\ last.pair[1] \notin Range(cr_cells)
    /\ ~cr_id[last.pair[2]] /\ last.pair[2] \notin Range(cr_cells)

\* is_arc_crossed_boundary, lines 310-322
is_arc_crossed_boundary(arc) ==
    \E i \in DOMAIN arc :
        \E j \in DOMAIN _verts(arc[i]) :
            LET idx == _verts(arc[i])[j]
            IN  (idx < sizeX) \/ (idx % sizeY) = 0

\* list_arcs, lines 274-279 (as a set: the order of the arcs does not matter
\* to the callers modelled here)
list_arcs == UNION {Range(arcs[s]) : s \in DOMAIN arcs}

\* get_cut_morse_graph, lines 1112-1127: nx.Graph(self.msgraph) keeps one edge
\* for each pair of adjacent nodes; removing an edge that is no longer there
\* is passed over (lines 1122-1125)
get_cut_morse_graph ==
    [nodes |-> msgraph.nodes,
     edges |-> BagToSet(msgraph.edges)
                   \ {{arc[1], arc[Len(arc)]} :
                          arc \in {a \in list_arcs : is_arc_crossed_boundary(a)}}]

\* a call of get_cut_morse_graph on a complex whose arcs have been computed
GetCutMorseGraph ==
    /\ pc \in {"arcs", "built", "simplified"} /\ err = ""
    /\ last' = [op |-> "get_cut_morse_graph", result |-> get_cut_morse_graph]
    /\ UNCHANGED <<sizeX, sizeY, values, V, cr_id, cr_cells, msgraph, arcs,
                   ppairs, pc, err, threads_num, workers, touched>>

NextCut ==
    \/ Next
    \/ GetCutMorseGraph

\* build_all, cancellations and calls of get_cut_morse_graph
SpecCut == Init /\ [][NextCut]_vars

\* the last call was get_cut_morse_graph (the complex is as it was then)
CutCall ==
    /\ last # <<>> /\ "op" \in DOMAIN last
    /\ last.op = "get_cut_morse_graph"

\* one of the cells of the arc has a vertex in the first column or in the
\* first row of the grid
CrossesSeam(arc) ==
    \E i \in DOMAIN arc :
        \E j \in DOMAIN _verts(arc[i]) :
            coordx(_verts(arc[i])[j]) = 0 \/ coordy(_verts(arc[i])[j]) = 0

\* the MS graph as a simple graph without the edges {s, e} that have an arc
\* from s to e across the seam
CutBySeam ==
    [nodes |-> msgraph.nodes,
     edges |-> {ed \in BagToSet(msgraph.edges) :
                   {a \in list_arcs : {a[1], a[Len(a)]} = ed /\ CrossesSeam(a)}
                       = {}}]

\* C22: get_cut_morse_graph returns the MS graph, as a simple graph, without
\* exactly the edges {s, e} that have an arc from s to e with a cell that has
\* a vertex with coordx = 0 or coordy = 0, on every grid (W # H included)
C22_CutRemovesTheSeamCrossers == CutCall => last.result = CutBySeam

\* get_cut_morse_graph has been called on the complex of a non-square grid
\* that has an arc across the seam and an arc that does not cross it
C22_Witness ==
    /\ CutCall /\ sizeX # sizeY
    /\ \E a \in list_arcs : CrossesSeam(a)
    /\ \E a \in list_arcs : ~CrossesSeam(a)

\* what holds: on a square grid the seam test is the one of coordx and coordy
C22_CutOnSquareGrids == (CutCall /\ sizeX = sizeY) => last.result = CutBySeam

Called(op) == last # <<>> /\ last.op = op

HorizontalEdges == size .. (2 * size - 1)

VerticalEdges == (2 * size) .. (3 * size - 1)

\* fs are the edges of the face f in the order top, left, bottom, right: f's
\* vertices go round from the top left one (top left, top right, bottom
\* right, bottom left)
TopLeftBottomRight(f, fs) ==
    LET fv == _verts(f)
    IN  /\ Len(fs) = 4
        /\ fs[1] \in HorizontalEdges /\ _verts(fs[1]) = <<fv[1], fv[2]>>
        /\ fs[2] \in VerticalEdges /\ _verts(fs[2]) = <<fv[1], fv[4]>>
        /\ fs[3] \in HorizontalEdges /\ _verts(fs[3]) = <<fv[4], fv[3]>>
        /\ fs[4] \in VerticalEdges /\ _verts(fs[4]) = <<fv[2], fv[3]>>

\* C21: the incidence queries agree with each other on every grid: the
\* facets of a face are its top, left, bottom and right edge and each has the
\* face among its cofacets; the cofacets of an edge are two faces that have
\* the edge among their facets; the facets of an edge are its two endpoints
\* (the edge is in the star of each); every cell of star(v) has the vertex v
C21_IncidenceQueriesAgree ==
    /\ (Called("_facets") /\ dim(last.arg) = 2) =>
           /\ TopLeftBottomRight(last.arg, last.result)
           /\ \A i \in DOMAIN last.result :
                  last.arg \in Range(_cofacets(last.result[i]))
    /\ (Called("_facets") /\ dim(last.arg) = 1) =>
           /\ Len(last.result) = 2
           /\ last.result = _verts(last.arg)
           /\ \A i \in DOMAIN last.result :
                  /\ dim(last.result[i]) = 0
                  /\ last.arg \in Range(star(last.result[i]))
    /\ (Called("_cofacets") /\ dim(last.arg) = 1) =>
           /\ Len(last.result) = 2
           /\ \A i \in DOMAIN last.result :
                  /\ last.result[i] \in Cells /\ dim(last.result[i]) = 2
                  /\ last.arg \in Range(_facets(last.result[i]))
    /\ Called("star") =>
           /\ Len(last.result) = 8
           /\ \A i \in DOMAIN last.result :
                  /\ last.result[i] \in Cells
                  /\ last.arg \in Range(_verts(last.result[i]))

\* _cofacets has been called on a horizontal edge of the first row of a
\* non-square grid: the face above it is in the last row
C21_Witness ==
    /\ Called("_cofacets") /\ sizeX >= 3 /\ sizeY >= 3 /\ sizeX # sizeY
    /\ last.arg \in size .. (size + sizeX - 1)
    /\ last.result[1] >= 4 * size - sizeX

(***************************************************************************)
(* Properties of mustache removal.                                         *)
(***************************************************************************)
ArcInputs == UNION {[1 .. n -> 0 .. MaxArcCell] : n \in 0 .. MaxArcLen}

\* _simplify_arc(arc), lines 18-38, on a list of cells; the result is the
\* list as the call leaves it and "ok" or the exception
CallSimplifyArc ==
    \E cells \in ArcInputs :
        LET r == _simplify_arc(cells)
        IN  Call("_simplify_arc", cells, [st |-> r.st, arc |-> r.arc])

InitArc == InitTest /\ threads_num = 8

NextArc == CallSimplifyArc

\* calls of _simplify_arc
SpecArc == InitArc /\ [][NextArc]_vars

\* the list has a cell with the same cell before it and after it
PalindromicTriple(a) == \E i \in 2 .. (Len(a) - 1) : a[i - 1] = a[i + 1]

\* the lists a becomes by the deletion of one stub: the cells around c are
\* the same on both sides as far as m, not farther, and 2 * m of them go
OneStubDeleted(a) ==
    {SubSeq(a, 1, p[1] - p[2] - 1) \o SubSeq(a, p[1] + p[2], Len(a)) :
        p \in {q \in (1 .. Len(a)) \X (1 .. Len(a)) :
                  /\ q[1] - q[2] >= 1 /\ q[1] + q[2] <= Len(a)
                  /\ \A k \in 1 .. q[2] : a[q[1] - k] = a[q[1] + k]
                  /\ \/ q[1] - q[2] = 1
                     \/ q[1] + q[2] = Len(a)
                     \/ a[q[1] - q[2] - 1] # a[q[1] + q[2] + 1]}}

RECURSIVE StubsDeleted(_)
\* the lists a becomes by the deletion of stubs, one after the other
StubsDeleted(a) == {a} \cup UNION {StubsDeleted(b) : b \in OneStubDeleted(a)}

SameEnds(a, b) ==
    IF a = <<>> THEN b = <<>>
    ELSE b # <<>> /\ b[1] = a[1] /\ b[Len(b)] = a[Len(a)]

\* C27: for every list of cells _simplify_arc returns without an index
\* error and leaves a list with no palindromic triple and with the first and
\* the last cell of the input, which differs from the input only by deleted
\* maximal palindromic stubs (an even number of cells each)
C27_MustacheRemoval ==
    Called("_simplify_arc") =>
        /\ last.result.st = "ok"
        /\ ~PalindromicTriple(last.result.arc)
        /\ SameEnds(last.arg, last.result.arc)
        /\ last.result.arc \in StubsDeleted(last.arg)

\* _simplify_arc has returned from a list whose last three cells are a
\* palindromic triple, and has left it there
C27_Witness ==
    /\ Called("_simplify_arc") /\ last.result.st = "ok"
    /\ last.arg = <<0, 1, 2, 0, 2>>
    /\ PalindromicTriple(last.result.arc)

\* what holds: when the call returns, the list has the ends of the input and
\* differs from it by deleted stubs only
C27_ReturnedListKeepsEnds ==
    (Called("_simplify_arc") /\ last.result.st = "ok") =>
        /\ SameEnds(last.arg, last.result.arc)
        /\ last.result.arc \in StubsDeleted(last.arg)

====
